---- MODULE Spec2Model ----
(***************************************************************************)
(* Invoice numbering, invoice persistence and invoice money arithmetic of  *)
(* the invoice-maker application: the SQL function                         *)
(* get_next_invoice_number, the tables organizations / invoices /          *)
(* invoice_items with their constraints, and the hooks useCreateInvoice,   *)
(* useUpdateInvoice, useUpdateInvoiceStatus and useDeleteInvoice.          *)
(*                                                                         *)
(* Text is a sequence of one-character strings.  A JavaScript number that  *)
(* carries money is an integer count of 1/10000 units (exact decimal      *)
(* arithmetic stands for the hooks' floating point); a DECIMAL(p,2) column *)
(* holds an integer count of hundredths.                                   *)
(***************************************************************************)
EXTENDS Integers, Sequences, FiniteSets, TLC

\* ------------------------------------------------------------------ bounds
MaxCalls == 3
MaxMoneyCalls == 2

\* ------------------------------------------------------- tenants and users
Orgs == {"o1", "o2"}
UnknownOrg == "o9"
OrgIds == Orgs \cup {UnknownOrg}
Clients == {"c1", "c2", "c3"}
AllocClients == {"c1", "c2"}
MoneyClients == {"c1"}
current_organization_id == ("c1" :> "o1") @@ ("c2" :> "o1") @@ ("c3" :> "o2")
user_roles == {<<c, current_organization_id[c]>> : c \in Clients}
is_org_member(user, org) == <<user, org>> \in user_roles

StartCounters == {0, 9998}
Statuses == {"draft", "sent", "paid", "overdue", "cancelled"}

\* ----------------------------------------------------------- SQL text, NULL
NULL == <<"NULL">>
NullInt == -1
DigitChars == <<"0", "1", "2", "3", "4", "5", "6", "7", "8", "9">>

RECURSIVE IntToText(_)
IntToText(n) ==
  IF n < 10 THEN <<DigitChars[n + 1]>>
  ELSE IntToText(n \div 10) \o <<DigitChars[(n % 10) + 1]>>

LPAD(s, len, fill) ==
  IF Len(s) >= len THEN SubSeq(s, 1, len)
  ELSE [i \in 1..len |-> IF i <= len - Len(s) THEN fill ELSE s[i - (len - Len(s))]]

COALESCE(v, d) == IF v = NullInt THEN d ELSE v

FormatInvoiceNumber(next_num) ==
  IF next_num = NullInt THEN NULL
  ELSE <<"I", "N", "V", "-">> \o LPAD(IntToText(next_num), 4, "0")

\* Variant: the WHERE clause matches every organization row.
MatchingOrgsAll(org_id) == IF org_id \in Orgs THEN Orgs ELSE {}

MatchingOrgs(org_id) == {o \in Orgs : o = org_id}

\* ------------------------------------------------------------------- money
CentUnits == 100
PercentBase == 100
Quantities == {1, 2}
UnitPrices == {50, 500000, 1000000}
TaxRates == {0, 18, 100}
Descriptions == {"a"}

Item(d, q, p, r) == [description |-> d, quantity |-> q, unit_price |-> p, tax_rate |-> r]
Items == {Item(d, q, p, r) : d \in Descriptions, q \in Quantities, p \in UnitPrices, r \in TaxRates}
BasicLists == {<<Item("a", 2, 1000000, 18)>>}
ItemLists == {<<i>> : i \in Items} \cup {<<Item("a", 2, 1000000, 18), Item("a", 1, 500000, 0)>>}

itemSubtotal(item) == item.quantity * item.unit_price
itemTax(item) == (itemSubtotal(item) * item.tax_rate) \div PercentBase
\* Variant: the line amount leaves the tax out.
itemAmountNoTax(item) == itemSubtotal(item)

itemAmount(item) == itemSubtotal(item) + itemTax(item)

RECURSIVE SumSeq(_)
SumSeq(numbers) ==
  IF numbers = <<>> THEN 0 ELSE Head(numbers) + SumSeq(Tail(numbers))

subtotalOf(items) == SumSeq([i \in DOMAIN items |-> itemSubtotal(items[i])])
taxAmountOf(items) == SumSeq([i \in DOMAIN items |-> itemTax(items[i])])
totalAmountOf(items) == subtotalOf(items) + taxAmountOf(items)

ToDecimal2(x) == (x + (CentUnits \div 2)) \div CentUnits

\* ------------------------------------------------------------------- state
VARIABLES
  invoice_counter,   \* organizations.invoice_counter, per organization row
  invoices,          \* table invoices: id -> row
  invoice_items,     \* table invoice_items: set of rows
  next_invoice_id,   \* stands for gen_random_uuid() of invoices.id
  next_item_id,      \* stands for gen_random_uuid() of invoice_items.id
  pc,                \* per client: the await the running mutation is at
  local,             \* per client: the running mutation's variables
  result,            \* per client: outcome of the last finished mutation
  allocated,         \* history: per org id, every value the SQL function returned
  counter0,          \* history: invoice_counter at the start
  calls,             \* number of mutations and rpc calls started
  form,              \* per client: the Create / Edit invoice form on screen
  dashboard,         \* per client: the statistics the Dashboard page shows
  today,             \* the date, in periods of 30 days
  cache              \* per client: the invoices its last fetch returned, id -> status

vars == <<invoice_counter, invoices, invoice_items, next_invoice_id, next_item_id,
          pc, local, result, allocated, counter0, calls, form, dashboard, today, cache>>

NoLocal == [id |-> 0, invoiceNumber |-> NULL, items |-> <<>>]
NoResult == [op |-> "none", ok |-> TRUE, error |-> "none", value |-> NULL, id |-> 0, org |-> "none"]
Ok(op, value, id) == [NoResult EXCEPT !.op = op, !.value = value, !.id = id]
Err(op, error, id) == [NoResult EXCEPT !.op = op, !.ok = FALSE, !.error = error, !.id = id]
RpcOk(org_id, value) == [Ok("rpc", value, 0) EXCEPT !.org = org_id]
RpcErr(org_id, error) == [Err("rpc", error, 0) EXCEPT !.org = org_id]

ZeroTotals == [subtotal |-> 0, tax |-> 0, total |-> 0]
NoForm == [page |-> "none", id |-> 0, submitting |-> FALSE, action |-> "none",
           customerName |-> "", invoiceNumber |-> <<>>, items |-> <<>>,
           totals |-> ZeroTotals, amounts |-> <<>>]
NoDashboard == [shown |-> FALSE, totalRevenue |-> 0, outstanding |-> 0]

InitWith(counters) ==
  /\ invoice_counter \in [Orgs -> counters]
  /\ counter0 = invoice_counter
  /\ invoices = << >>
  /\ invoice_items = {}
  /\ next_invoice_id = 1
  /\ next_item_id = 1
  /\ pc = [c \in Clients |-> "idle"]
  /\ local = [c \in Clients |-> NoLocal]
  /\ result = [c \in Clients |-> NoResult]
  /\ allocated = [o \in OrgIds |-> <<>>]
  /\ calls = 0
  /\ form = [c \in Clients |-> NoForm]
  /\ dashboard = [c \in Clients |-> NoDashboard]
  /\ today = 0
  /\ cache = [c \in Clients |-> << >>]

Init == InitWith(StartCounters)

\* --------------------------------------------------- get_next_invoice_number
\* UPDATE organizations SET invoice_counter = COALESCE(invoice_counter, 0) + 1
\* WHERE id = org_id RETURNING invoice_counter INTO next_num
\* Variant: the counter advances by two.
UpdatedCountersByTwo(org_id) ==
  [o \in Orgs |-> IF o \in MatchingOrgs(org_id)
                  THEN COALESCE(invoice_counter[o], 0) + 2
                  ELSE invoice_counter[o]]

\* Variant: the UPDATE leaves the counter as it is.
UpdatedCountersKept(org_id) == invoice_counter

UpdatedCounters(org_id) ==
  [o \in Orgs |-> IF o \in MatchingOrgs(org_id)
                  THEN COALESCE(invoice_counter[o], 0) + 1
                  ELSE invoice_counter[o]]

ReturningNextNum(org_id) ==
  IF MatchingOrgs(org_id) = {} THEN NullInt ELSE UpdatedCounters(org_id)[org_id]

\* The whole function: one UPDATE ... RETURNING statement, then RETURN.
get_next_invoice_number(org_id) ==
  /\ invoice_counter' = UpdatedCounters(org_id)
  /\ allocated' = [allocated EXCEPT
                     ![org_id] = Append(@, FormatInvoiceNumber(ReturningNextNum(org_id)))]

Returned(org_id) == FormatInvoiceNumber(ReturningNextNum(org_id))

\* A request either runs and answers, is lost before it runs, or runs and
\* its answer is lost.
Faults == {"none", "request_lost", "response_lost"}
Finish(c, r) ==
  /\ pc' = [pc EXCEPT ![c] = "idle"]
  /\ local' = [local EXCEPT ![c] = NoLocal]
  /\ result' = [result EXCEPT ![c] = r]

\* supabase.rpc("get_next_invoice_number", {org_id}) called on its own
RpcGetNextInvoiceNumber(c, max) ==
  /\ pc[c] = "idle"
  /\ calls < max
  /\ calls' = calls + 1
  /\ \E org_id \in OrgIds, fault \in Faults :
       /\ IF fault = "request_lost"
          THEN UNCHANGED <<invoice_counter, allocated>>
          ELSE get_next_invoice_number(org_id)
       /\ Finish(c, IF fault = "none" THEN RpcOk(org_id, Returned(org_id))
                    ELSE RpcErr(org_id, "network"))
  /\ UNCHANGED <<invoices, invoice_items, next_invoice_id, next_item_id, counter0, form, dashboard, today, cache>>

\* ---------------------------------------------------------- table invoices
\* Ids a caller may name: every id handed out so far and one that never was.
InvoiceIds == 1..next_invoice_id

Visible(c, id) ==
  /\ id \in DOMAIN invoices
  /\ is_org_member(c, invoices[id].organization_id)

\* Variant: no UNIQUE(organization_id, invoice_number) constraint.
UniqueViolationOff(org, number) == FALSE

UniqueViolation(org, number) ==
  \E id \in DOMAIN invoices :
     /\ invoices[id].organization_id = org
     /\ invoices[id].invoice_number = number

\* Dates are counted in periods of 30 days from the start; the form's default
\* due date is one period after the day the form is opened.
DueAfter == 1

\* Variant: the header is inserted as sent.
InvoiceRowSent(org, number, items) ==
  [organization_id |-> org,
   invoice_number |-> number,
   status |-> "sent",
   subtotal |-> ToDecimal2(subtotalOf(items)),
   tax_amount |-> ToDecimal2(taxAmountOf(items)),
   discount_amount |-> 0,
   total_amount |-> ToDecimal2(totalAmountOf(items)),
   due_date |-> today + DueAfter]

InvoiceRow(org, number, items) ==
  [organization_id |-> org,
   invoice_number |-> number,
   status |-> "draft",
   subtotal |-> ToDecimal2(subtotalOf(items)),
   tax_amount |-> ToDecimal2(taxAmountOf(items)),
   discount_amount |-> 0,
   total_amount |-> ToDecimal2(totalAmountOf(items)),
   due_date |-> today + DueAfter]

InsertInvoiceError(c, org, number) ==
  IF number = NULL THEN "not_null_violation"
  ELSE IF ~is_org_member(c, org) THEN "rls_violation"
  ELSE IF UniqueViolation(org, number) THEN "unique_violation"
  ELSE "none"

\* given is history: the item as the caller submitted it.
ItemRowsFrom(first_id, invoice_id, items) ==
  {[id |-> first_id + i - 1,
    invoice_id |-> invoice_id,
    description |-> items[i].description,
    quantity |-> items[i].quantity,
    unit_price |-> ToDecimal2(items[i].unit_price),
    tax_rate |-> items[i].tax_rate,
    amount |-> ToDecimal2(itemAmount(items[i])),
    given |-> items[i]] : i \in 1..Len(items)}

ItemRows(invoice_id, items) == ItemRowsFrom(next_item_id, invoice_id, items)

InsertItems(invoice_id, items) ==
  /\ invoice_items' = invoice_items \cup ItemRows(invoice_id, items)
  /\ next_item_id' = next_item_id + Len(items)

\* ------------------------------------------------------------ useCreateInvoice
\* Every client is signed in and has a profile with an organization, so the
\* two throws that open mutationFn are passed.
\* Variant: when the rpc fails the mutation goes on with a number of its own.
CreateInvoiceStartFallback(c, lists, max) ==
  /\ pc[c] = "idle"
  /\ calls < max
  /\ calls' = calls + 1
  /\ \E items \in lists, fault \in Faults :
       LET org == current_organization_id[c] IN
       /\ IF fault = "request_lost"
          THEN UNCHANGED <<invoice_counter, allocated>>
          ELSE get_next_invoice_number(org)
       /\ pc' = [pc EXCEPT ![c] = "create_insert"]
       /\ local' = [local EXCEPT ![c] =
                      [id |-> 0,
                       invoiceNumber |-> IF fault = "none" THEN Returned(org)
                                         ELSE FormatInvoiceNumber(0),
                       items |-> items]]
       /\ UNCHANGED result
  /\ UNCHANGED <<invoices, invoice_items, next_invoice_id, next_item_id, counter0, dashboard, today, cache>>

\* mutationFn up to the rpc; form is left to the caller of mutateAsync.
CreateInvoiceStart(c, lists, max) ==
  /\ pc[c] = "idle"
  /\ calls < max
  /\ calls' = calls + 1
  /\ \E items \in lists, fault \in Faults :
       LET org == current_organization_id[c] IN
       /\ IF fault = "request_lost"
          THEN UNCHANGED <<invoice_counter, allocated>>
          ELSE get_next_invoice_number(org)
       /\ IF fault = "none"
          THEN /\ pc' = [pc EXCEPT ![c] = "create_insert"]
               /\ local' = [local EXCEPT ![c] =
                              [id |-> 0, invoiceNumber |-> Returned(org), items |-> items]]
               /\ UNCHANGED result
          ELSE Finish(c, Err("createInvoice", "network", 0))
  /\ UNCHANGED <<invoices, invoice_items, next_invoice_id, next_item_id, counter0, dashboard, today, cache>>

\* createInvoice.mutate called with the items of one of lists.
CreateInvoiceRpc(c, lists, max) ==
  /\ CreateInvoiceStart(c, lists, max)
  /\ UNCHANGED form

CreateInvoiceInsert(c) ==
  /\ pc[c] = "create_insert"
  /\ \E fault \in Faults :
       LET org == current_organization_id[c]
           number == local[c].invoiceNumber
           error == InsertInvoiceError(c, org, number)
           stored == fault # "request_lost" /\ error = "none"
       IN
       /\ IF stored
          THEN /\ invoices' = (next_invoice_id :> InvoiceRow(org, number, local[c].items))
                                @@ invoices
               /\ next_invoice_id' = next_invoice_id + 1
          ELSE UNCHANGED <<invoices, next_invoice_id>>
       /\ IF fault # "none"
          THEN Finish(c, Err("createInvoice", "network", 0))
          ELSE IF error # "none"
          THEN Finish(c, Err("createInvoice", error, 0))
          ELSE /\ pc' = [pc EXCEPT ![c] = "create_items"]
               /\ local' = [local EXCEPT ![c].id = next_invoice_id]
               /\ UNCHANGED result
  /\ UNCHANGED <<invoice_counter, invoice_items, next_item_id, allocated, counter0, calls, form, dashboard, today, cache>>

\* Variant: a failed item insert takes the header back.
CreateInvoiceItemsRollback(c) ==
  /\ pc[c] = "create_items"
  /\ \E fault \in Faults :
       LET id == local[c].id
           error == IF Visible(c, id) THEN "none" ELSE "rls_violation"
           stored == fault # "request_lost" /\ error = "none"
       IN
       /\ IF stored
          THEN InsertItems(id, local[c].items) /\ UNCHANGED invoices
          ELSE /\ invoices' = [i \in DOMAIN invoices \ {id} |-> invoices[i]]
               /\ UNCHANGED <<invoice_items, next_item_id>>
       /\ Finish(c, IF fault # "none" THEN Err("createInvoice", "network", id)
                    ELSE IF error # "none" THEN Err("createInvoice", error, id)
                    ELSE Ok("createInvoice", local[c].invoiceNumber, id))
  /\ UNCHANGED <<invoice_counter, next_invoice_id, allocated, counter0, calls, form, dashboard, today, cache>>

CreateInvoiceItems(c) ==
  /\ pc[c] = "create_items"
  /\ \E fault \in Faults :
       LET id == local[c].id
           error == IF Visible(c, id) THEN "none" ELSE "rls_violation"
           stored == fault # "request_lost" /\ error = "none"
       IN
       /\ IF stored THEN InsertItems(id, local[c].items)
          ELSE UNCHANGED <<invoice_items, next_item_id>>
       /\ Finish(c, IF fault # "none" THEN Err("createInvoice", "network", id)
                    ELSE IF error # "none" THEN Err("createInvoice", error, id)
                    ELSE Ok("createInvoice", local[c].invoiceNumber, id))
  /\ UNCHANGED <<invoice_counter, invoices, next_invoice_id, allocated, counter0, calls, form, dashboard, today, cache>>

\* ------------------------------------------------------------ useUpdateInvoice
\* Variant: the header update also writes an invoice number.
UpdatedInvoiceRowRenumbered(row, items) ==
  [row EXCEPT !.invoice_number = <<"X">>,
              !.subtotal = ToDecimal2(subtotalOf(items)),
              !.tax_amount = ToDecimal2(taxAmountOf(items)),
              !.total_amount = ToDecimal2(totalAmountOf(items))]

UpdatedInvoiceRow(row, items) ==
  [row EXCEPT !.subtotal = ToDecimal2(subtotalOf(items)),
              !.tax_amount = ToDecimal2(taxAmountOf(items)),
              !.total_amount = ToDecimal2(totalAmountOf(items))]

\* Variant: a header update that matches no row is not an error.
HeaderUpdateErrorNone(c, id) == "none"

\* .update(...).eq("id", id).select().single(): no row returned is an error.
HeaderUpdateError(c, id) == IF Visible(c, id) THEN "none" ELSE "no_rows"

\* mutationFn up to the header update; form is left to the caller of mutateAsync.
UpdateInvoiceStart(c, ids, lists, max) ==
  /\ pc[c] = "idle"
  /\ calls < max
  /\ calls' = calls + 1
  /\ \E id \in ids, items \in lists, fault \in Faults :
       LET error == HeaderUpdateError(c, id)
           stored == fault # "request_lost" /\ Visible(c, id)
       IN
       /\ invoices' = IF stored
                      THEN [invoices EXCEPT ![id] = UpdatedInvoiceRow(@, items)]
                      ELSE invoices
       /\ IF fault # "none"
          THEN Finish(c, Err("updateInvoice", "network", id))
          ELSE IF error # "none"
          THEN Finish(c, Err("updateInvoice", error, id))
          ELSE /\ pc' = [pc EXCEPT ![c] = "update_delete"]
               /\ local' = [local EXCEPT ![c] =
                              [id |-> id, invoiceNumber |-> NULL, items |-> items]]
               /\ UNCHANGED result
  /\ UNCHANGED <<invoice_counter, invoice_items, next_invoice_id, next_item_id,
                 allocated, counter0, dashboard, today, cache>>

\* updateInvoice.mutate called for any invoice id with the items of one of lists.
UpdateInvoiceHeader(c, lists, max) ==
  /\ UpdateInvoiceStart(c, InvoiceIds, lists, max)
  /\ UNCHANGED form

\* Variant: the items of the invoice are not deleted before the insert.
UpdateInvoiceKeepItems(c) ==
  /\ pc[c] = "update_delete"
  /\ \E fault \in Faults :
       IF fault # "none"
       THEN Finish(c, Err("updateInvoice", "network", local[c].id))
       ELSE /\ pc' = [pc EXCEPT ![c] = "update_insert"]
            /\ UNCHANGED <<local, result>>
  /\ UNCHANGED <<invoice_counter, invoices, invoice_items, next_invoice_id, next_item_id,
                 allocated, counter0, calls, form, dashboard, today, cache>>

UpdateInvoiceDeleteItems(c) ==
  /\ pc[c] = "update_delete"
  /\ \E fault \in Faults :
       LET id == local[c].id IN
       /\ invoice_items' = IF fault # "request_lost" /\ Visible(c, id)
                           THEN {r \in invoice_items : r.invoice_id # id}
                           ELSE invoice_items
       /\ IF fault # "none"
          THEN Finish(c, Err("updateInvoice", "network", id))
          ELSE /\ pc' = [pc EXCEPT ![c] = "update_insert"]
               /\ UNCHANGED <<local, result>>
  /\ UNCHANGED <<invoice_counter, invoices, next_invoice_id, next_item_id,
                 allocated, counter0, calls, form, dashboard, today, cache>>

UpdateInvoiceInsertItems(c) ==
  /\ pc[c] = "update_insert"
  /\ \E fault \in Faults :
       LET id == local[c].id
           error == IF Visible(c, id) THEN "none" ELSE "rls_violation"
           stored == fault # "request_lost" /\ error = "none"
       IN
       /\ IF stored THEN InsertItems(id, local[c].items)
          ELSE UNCHANGED <<invoice_items, next_item_id>>
       /\ Finish(c, IF fault # "none" THEN Err("updateInvoice", "network", id)
                    ELSE IF error # "none" THEN Err("updateInvoice", error, id)
                    ELSE Ok("updateInvoice", NULL, id))
  /\ UNCHANGED <<invoice_counter, invoices, next_invoice_id, allocated, counter0, calls, form, dashboard, today, cache>>

\* ------------------------------------------------------ useUpdateInvoiceStatus
\* Variant: an update that matches no row is not an error.
StatusUpdateErrorNone(c, id, status) == "none"

StatusUpdateError(c, id, status) == IF Visible(c, id) THEN "none" ELSE "no_rows"

\* mutationFn and its outcome, for an id and a status out of the given ones.
UpdateInvoiceStatusRequest(c, ids, statuses) ==
  /\ \E id \in ids, status \in statuses, fault \in Faults :
       LET error == StatusUpdateError(c, id, status)
           stored == fault # "request_lost" /\ error = "none"
       IN
       /\ invoices' = IF stored THEN [invoices EXCEPT ![id].status = status]
                      ELSE invoices
       /\ Finish(c, IF fault # "none" THEN Err("setStatus", "network", id)
                    ELSE IF error # "none" THEN Err("setStatus", error, id)
                    ELSE Ok("setStatus", NULL, id))
  /\ UNCHANGED <<invoice_counter, invoice_items, next_invoice_id, next_item_id,
                 allocated, counter0, dashboard, today>>

UpdateInvoiceStatus(c, max) ==
  /\ pc[c] = "idle"
  /\ calls < max
  /\ calls' = calls + 1
  /\ UpdateInvoiceStatusRequest(c, InvoiceIds, Statuses)
  /\ UNCHANGED <<form, cache>>

\* ------------------------------------------------------------ useDeleteInvoice
\* Variant: a delete that matches no row is an error.
DeleteErrorNoRows(c, id) == IF Visible(c, id) THEN "none" ELSE "no_rows"

\* .delete().eq("id", id) with no .select(): matching no row is not an error.
DeleteError(c, id) == "none"

\* mutationFn and its outcome, for an id out of the given ones.
DeleteInvoiceRequest(c, ids) ==
  /\ \E id \in ids, fault \in Faults :
       LET stored == fault # "request_lost" /\ Visible(c, id) IN
       /\ invoices' = IF stored
                      THEN [i \in DOMAIN invoices \ {id} |-> invoices[i]]
                      ELSE invoices
       /\ invoice_items' = IF stored
                           THEN {r \in invoice_items : r.invoice_id # id}
                           ELSE invoice_items
       /\ Finish(c, IF fault # "none" THEN Err("deleteInvoice", "network", id)
                    ELSE IF DeleteError(c, id) # "none"
                    THEN Err("deleteInvoice", DeleteError(c, id), id)
                    ELSE Ok("deleteInvoice", NULL, id))
  /\ UNCHANGED <<invoice_counter, next_invoice_id, next_item_id, allocated, counter0, form, dashboard, today, cache>>

DeleteInvoice(c, max) ==
  /\ pc[c] = "idle"
  /\ calls < max
  /\ calls' = calls + 1
  /\ DeleteInvoiceRequest(c, InvoiceIds)

\* ------------------------------------------- CreateInvoice and EditInvoice forms
\* Form numbers: quantity and taxRate are plain, unitPrice is in 1/10000.
FormItem(d, q, p, r) == [description |-> d, quantity |-> q, unitPrice |-> p, taxRate |-> r]
defaultItem == FormItem("", 1, 0, 18)
\* What the user types into a line: three acceptable lines, one of them
\* priced at half a hundredth, and one line for each rule of
\* invoiceItemSchema that a line can break.
FormItems ==
  {FormItem("a", 2, 1000000, 18), FormItem("a", 1, 500000, 0), FormItem("a", 1, 50, 18),
   defaultItem,
   FormItem("a", 0, 1000000, 18), FormItem("a", 1, -10000, 18),
   FormItem("a", 1, 1000000, 101), FormItem("a", 1, 1000000, -1)}
CustomerNames == {"", "n"}
TypedNumbers == {<<>>, <<"X">>}

\* Variant: the preview leaves the tax out.
calculateTotalsNoTax(items) ==
  LET subtotal == SumSeq([i \in DOMAIN items |-> items[i].quantity * items[i].unitPrice])
  IN [subtotal |-> subtotal, tax |-> 0, total |-> subtotal]

calculateTotals(items) ==
  LET subtotal == SumSeq([i \in DOMAIN items |-> items[i].quantity * items[i].unitPrice])
      tax == SumSeq([i \in DOMAIN items |->
                      (items[i].quantity * items[i].unitPrice * items[i].taxRate) \div PercentBase])
  IN [subtotal |-> subtotal, tax |-> tax, total |-> subtotal + tax]

\* Variant: the amount shown beside a line leaves the tax out.
calculateItemAmountNoTax(item) == item.quantity * item.unitPrice

calculateItemAmount(item) ==
  LET subtotal == item.quantity * item.unitPrice
      tax == (subtotal * item.taxRate) \div PercentBase
  IN subtotal + tax

\* Every change of a field renders the page again, which runs calculateTotals
\* and, for each line, calculateItemAmount.
Render(f) ==
  [f EXCEPT !.totals = calculateTotals(f.items),
            !.amounts = [i \in DOMAIN f.items |-> calculateItemAmount(f.items[i])]]

\* Variant: the schema accepts a line without a description.
itemSchemaOkNoDescription(item) ==
  /\ item.quantity >= 1
  /\ item.unitPrice >= 0
  /\ item.taxRate >= 0
  /\ item.taxRate <= 100

itemSchemaOk(item) ==
  /\ item.description # ""
  /\ item.quantity >= 1
  /\ item.unitPrice >= 0
  /\ item.taxRate >= 0
  /\ item.taxRate <= 100

\* invoiceNumber is a field of the Edit form's schema only.
invoiceSchemaOk(f) ==
  /\ f.customerName # ""
  /\ f.page = "edit" => Len(f.invoiceNumber) >= 1
  /\ Len(f.items) >= 1
  /\ \A i \in DOMAIN f.items : itemSchemaOk(f.items[i])

ToHookItems(items) ==
  [i \in DOMAIN items |->
     Item(items[i].description, items[i].quantity, items[i].unitPrice, items[i].taxRate)]

Editable(c) == form[c].page # "none" /\ ~form[c].submitting /\ pc[c] = "idle"

OpenCreateForm(c) ==
  /\ pc[c] = "idle"
  /\ ~form[c].submitting
  /\ form' = [form EXCEPT ![c] =
                Render([NoForm EXCEPT !.page = "create", !.items = <<defaultItem>>])]
  /\ UNCHANGED <<invoice_counter, invoices, invoice_items, next_invoice_id, next_item_id,
                 pc, local, result, allocated, counter0, calls, dashboard, today, cache>>

\* invoice_items of useInvoiceDetail: the rows of the invoice, oldest first.
RECURSIVE RowsInOrder(_)
RowsInOrder(rows) ==
  IF rows = {} THEN <<>>
  ELSE LET first == CHOOSE r \in rows : \A q \in rows : r.id <= q.id
       IN <<first>> \o RowsInOrder(rows \ {first})

LoadedItems(id) ==
  LET rows == RowsInOrder({r \in invoice_items : r.invoice_id = id})
  IN [i \in DOMAIN rows |->
        FormItem(rows[i].description, rows[i].quantity,
                 rows[i].unit_price * CentUnits, rows[i].tax_rate)]

\* The customer columns are not part of the model: the loaded name is any name.
OpenEditForm(c) ==
  /\ pc[c] = "idle"
  /\ ~form[c].submitting
  /\ \E id \in DOMAIN invoices, name \in CustomerNames :
       /\ Visible(c, id)
       /\ form' = [form EXCEPT ![c] =
                     Render([NoForm EXCEPT !.page = "edit", !.id = id,
                                           !.customerName = name,
                                           !.invoiceNumber = invoices[id].invoice_number,
                                           !.items = LoadedItems(id)])]
  /\ UNCHANGED <<invoice_counter, invoices, invoice_items, next_invoice_id, next_item_id,
                 pc, local, result, allocated, counter0, calls, dashboard, today, cache>>

SetCustomerName(c) ==
  /\ Editable(c)
  /\ \E name \in CustomerNames :
       form' = [form EXCEPT ![c] = Render([@ EXCEPT !.customerName = name])]
  /\ UNCHANGED <<invoice_counter, invoices, invoice_items, next_invoice_id, next_item_id,
                 pc, local, result, allocated, counter0, calls, dashboard, today, cache>>

SetInvoiceNumber(c) ==
  /\ Editable(c)
  /\ form[c].page = "edit"
  /\ \E number \in TypedNumbers :
       form' = [form EXCEPT ![c] = Render([@ EXCEPT !.invoiceNumber = number])]
  /\ UNCHANGED <<invoice_counter, invoices, invoice_items, next_invoice_id, next_item_id,
                 pc, local, result, allocated, counter0, calls, dashboard, today, cache>>

SetItem(c) ==
  /\ Editable(c)
  /\ \E i \in DOMAIN form[c].items, item \in FormItems :
       form' = [form EXCEPT ![c] = Render([@ EXCEPT !.items[i] = item])]
  /\ UNCHANGED <<invoice_counter, invoices, invoice_items, next_invoice_id, next_item_id,
                 pc, local, result, allocated, counter0, calls, dashboard, today, cache>>

AppendItem(c, maxItems) ==
  /\ Editable(c)
  /\ Len(form[c].items) < maxItems
  /\ form' = [form EXCEPT ![c] = Render([@ EXCEPT !.items = Append(@, defaultItem)])]
  /\ UNCHANGED <<invoice_counter, invoices, invoice_items, next_invoice_id, next_item_id,
                 pc, local, result, allocated, counter0, calls, dashboard, today, cache>>

RemoveAt(items, i) == SubSeq(items, 1, i - 1) \o SubSeq(items, i + 1, Len(items))

\* The remove button of a line is rendered only while there are several lines.
RemoveItem(c) ==
  /\ Editable(c)
  /\ Len(form[c].items) > 1
  /\ \E i \in DOMAIN form[c].items :
       form' = [form EXCEPT ![c] = Render([@ EXCEPT !.items = RemoveAt(@, i)])]
  /\ UNCHANGED <<invoice_counter, invoices, invoice_items, next_invoice_id, next_item_id,
                 pc, local, result, allocated, counter0, calls, dashboard, today, cache>>

\* handleSubmit: the zod resolver runs first; onSubmit runs only on valid data.
Rejected(c, op) ==
  /\ result' = [result EXCEPT ![c] = Err(op, "validation", form[c].id)]
  /\ UNCHANGED <<invoice_counter, invoices, invoice_items, next_invoice_id, next_item_id,
                 pc, local, allocated, counter0, calls, form, dashboard, today, cache>>

\* The buttons Save as Draft and Create & Send: onSubmit(data, action).
FormActions == {"save", "send"}

SubmitCreate(c, max) ==
  /\ Editable(c)
  /\ form[c].page = "create"
  /\ IF invoiceSchemaOk(form[c])
     THEN /\ CreateInvoiceStart(c, {ToHookItems(form[c].items)}, max)
          /\ \E action \in FormActions :
               form' = [form EXCEPT ![c].submitting = TRUE, ![c].action = action]
     ELSE Rejected(c, "createInvoice")

SubmitEdit(c, max) ==
  /\ Editable(c)
  /\ form[c].page = "edit"
  /\ IF invoiceSchemaOk(form[c])
     THEN /\ UpdateInvoiceStart(c, {form[c].id}, {ToHookItems(form[c].items)}, max)
          /\ form' = [form EXCEPT ![c].submitting = TRUE, ![c].action = "save"]
     ELSE Rejected(c, "updateInvoice")

\* Variant: the status update follows a createInvoice that threw, too.
SendPendingAfterError(c) ==
  /\ form[c].page = "create"
  /\ form[c].action = "send"
  /\ result[c].op = "createInvoice"

\* if (action === "send" && invoice), after createInvoice has resolved
SendPending(c) ==
  /\ form[c].page = "create"
  /\ form[c].action = "send"
  /\ result[c].op = "createInvoice"
  /\ result[c].ok

\* await updateInvoiceStatus.mutateAsync({id: invoice.id, status: "sent"})
OnSubmitSend(c) ==
  /\ form[c].submitting
  /\ pc[c] = "idle"
  /\ SendPending(c)
  /\ UpdateInvoiceStatusRequest(c, {result[c].id}, {"sent"})
  /\ UNCHANGED <<calls, form, cache>>

\* onSubmit after its awaits: navigate away on success, toast on error.
OnSubmitSettled(c) ==
  /\ form[c].submitting
  /\ pc[c] = "idle"
  /\ ~SendPending(c)
  /\ form' = [form EXCEPT ![c] = IF result[c].ok THEN NoForm
                                 ELSE [@ EXCEPT !.submitting = FALSE, !.action = "none"]]
  /\ UNCHANGED <<invoice_counter, invoices, invoice_items, next_invoice_id, next_item_id,
                 pc, local, result, allocated, counter0, calls, dashboard, today, cache>>

\* ------------------------------------------------------------------ Dashboard
\* data of useInvoices(): the invoices of the user's organization, newest first.
RECURSIVE IdsDescending(_)
IdsDescending(ids) ==
  IF ids = {} THEN <<>>
  ELSE LET newest == CHOOSE i \in ids : \A j \in ids : j <= i
       IN <<newest>> \o IdsDescending(ids \ {newest})

useInvoices(c) ==
  LET ids == {id \in DOMAIN invoices :
                /\ invoices[id].organization_id = current_organization_id[c]
                /\ Visible(c, id)}
      order == IdsDescending(ids)
  IN [i \in DOMAIN order |-> invoices[order[i]]]

TotalAmounts(list) == [i \in DOMAIN list |-> list[i].total_amount]

\* Variant: revenue counts every invoice that is not a draft.
totalRevenueNotDraft(list) ==
  SumSeq(TotalAmounts(SelectSeq(list, LAMBDA inv : inv.status # "draft")))

totalRevenue(list) ==
  SumSeq(TotalAmounts(SelectSeq(list, LAMBDA inv : inv.status = "paid")))

outstanding(list) ==
  SumSeq(TotalAmounts(SelectSeq(list, LAMBDA inv : inv.status \in {"sent", "pending", "overdue"})))

DashboardRender(c) ==
  /\ dashboard' = [dashboard EXCEPT ![c] =
                     [shown |-> TRUE,
                      totalRevenue |-> totalRevenue(useInvoices(c)),
                      outstanding |-> outstanding(useInvoices(c))]]
  /\ UNCHANGED <<invoice_counter, invoices, invoice_items, next_invoice_id, next_item_id,
                 pc, local, result, allocated, counter0, calls, form, today, cache>>

\* ------------------------------------------- InvoiceDetail and Invoices pages
\* What a fetch of useInvoices / useInvoice hands to the pages of client c.
Fetched(c, table) ==
  [id \in {i \in DOMAIN table :
             /\ table[i].organization_id = current_organization_id[c]
             /\ is_org_member(c, table[i].organization_id)} |-> table[id].status]

\* The queries run when a page mounts and again once their data is stale or
\* invalidated; between two fetches the pages render the cached rows.
FetchInvoices(c) ==
  /\ cache' = [cache EXCEPT ![c] = Fetched(c, invoices)]
  /\ UNCHANGED <<invoice_counter, invoices, invoice_items, next_invoice_id, next_item_id,
                 pc, local, result, allocated, counter0, calls, form, dashboard, today>>

\* onSuccess invalidates the queries: the client that made the change fetches again.
MarkAs(c, shown, status, max) ==
  /\ pc[c] = "idle"
  /\ calls < max
  /\ calls' = calls + 1
  /\ \E id \in DOMAIN cache[c] :
       /\ cache[c][id] \in shown
       /\ UpdateInvoiceStatusRequest(c, {id}, {status})
  /\ cache' = IF result'[c].ok THEN [cache EXCEPT ![c] = Fetched(c, invoices')] ELSE cache
  /\ UNCHANGED form

\* InvoiceDetail: {invoice.status === "draft" && <Button onClick={handleMarkAsSent}>}
DetailMarkAsSent(c, max) == MarkAs(c, {"draft"}, "sent", max)

\* InvoiceDetail: {invoice.status !== "paid" && invoice.status !== "cancelled" && ...}
DetailMarkAsPaid(c, max) == MarkAs(c, Statuses \ {"paid", "cancelled"}, "paid", max)

\* Invoices: {invoice.status !== "paid" && <DropdownMenuItem onClick={handleMarkAsPaid}>}
ListMarkAsPaid(c, max) == MarkAs(c, Statuses \ {"paid"}, "paid", max)

\* Invoices: the Delete item of a listed row, confirmed in the dialog.
ListDelete(c, max) ==
  /\ pc[c] = "idle"
  /\ calls < max
  /\ calls' = calls + 1
  /\ DeleteInvoiceRequest(c, DOMAIN cache[c])

\* Invoices: the Edit link of a listed row, the form filled in and submitted.
ListEdit(c, lists, max) ==
  /\ UpdateInvoiceStart(c, DOMAIN cache[c], lists, max)
  /\ UNCHANGED form

\* The Create form filled in with one of the lists and submitted with one of
\* its two buttons.
FilledCreateForm(items, action) ==
  [Render([NoForm EXCEPT !.page = "create", !.customerName = "n",
                         !.items = [i \in DOMAIN items |->
                                      FormItem(items[i].description, items[i].quantity,
                                               items[i].unit_price, items[i].tax_rate)]])
     EXCEPT !.submitting = TRUE, !.action = action]

CreateFromForm(c, lists, max) ==
  /\ form[c].page = "none"
  /\ \E items \in lists, action \in FormActions :
       /\ CreateInvoiceStart(c, {items}, max)
       /\ form' = [form EXCEPT ![c] = FilledCreateForm(items, action)]

\* ---------------------------------------------------------------------- time
\* Nothing in the schema or the pages writes a status when a date is reached:
\* the only trigger on invoices sets updated_at on UPDATE.
\* Variant: a sent invoice past its due date is marked overdue.
DayPassesMarksOverdue(maxDay) ==
  /\ today < maxDay
  /\ today' = today + 1
  /\ invoices' = [id \in DOMAIN invoices |->
                    IF invoices[id].status = "sent" /\ invoices[id].due_date < today + 1
                    THEN [invoices[id] EXCEPT !.status = "overdue"]
                    ELSE invoices[id]]
  /\ UNCHANGED <<invoice_counter, invoice_items, next_invoice_id, next_item_id,
                 pc, local, result, allocated, counter0, calls, form, dashboard, cache>>

DayPasses(maxDay) ==
  /\ today < maxDay
  /\ today' = today + 1
  /\ UNCHANGED <<invoice_counter, invoices, invoice_items, next_invoice_id, next_item_id,
                 pc, local, result, allocated, counter0, calls, form, dashboard, cache>>

\* ----------------------------------------------------------- specifications
\* The state after client c1 created the first invoice of organization o1 from
\* one of lists: all of its item rows were written, or (kept = FALSE) the item
\* insert failed and left the header alone.
InitStored(lists) ==
  \E submitted \in lists, kept \in BOOLEAN :
    LET rows == IF kept THEN ItemRowsFrom(1, 1, submitted) ELSE {} IN
    /\ today = 0
    /\ cache = [c \in Clients |-> << >>]
    /\ invoice_counter = [o \in Orgs |-> IF o = "o1" THEN 1 ELSE 0]
    /\ counter0 = [o \in Orgs |-> 0]
    /\ invoices = (1 :> InvoiceRow("o1", FormatInvoiceNumber(1), submitted))
    /\ invoice_items = rows
    /\ next_invoice_id = 2
    /\ next_item_id = 1 + Cardinality(rows)
    /\ pc = [c \in Clients |-> "idle"]
    /\ local = [c \in Clients |-> NoLocal]
    /\ result = [c \in Clients |-> NoResult]
    /\ allocated = [o \in OrgIds |-> IF o = "o1" THEN <<FormatInvoiceNumber(1)>> ELSE <<>>]
    /\ calls = 0
    /\ form = [c \in Clients |-> NoForm]
    /\ dashboard = [c \in Clients |-> NoDashboard]

\* Numbering and invoice life cycle under concurrent clients.
Next ==
  \E c \in AllocClients :
    \/ RpcGetNextInvoiceNumber(c, MaxCalls)
    \/ CreateInvoiceRpc(c, BasicLists, MaxCalls)
    \/ CreateInvoiceInsert(c)
    \/ CreateInvoiceItems(c)
    \/ UpdateInvoiceStatus(c, MaxCalls)
    \/ DeleteInvoice(c, MaxCalls)

Spec == Init /\ [][Next]_vars

\* Money arithmetic and storage: one client working through the item inputs.
InitMoney == InitWith({0})

NextMoney ==
  \E c \in MoneyClients :
    \/ CreateInvoiceRpc(c, ItemLists, MaxMoneyCalls)
    \/ CreateInvoiceInsert(c)
    \/ CreateInvoiceItems(c)
    \/ UpdateInvoiceHeader(c, ItemLists, MaxMoneyCalls)
    \/ UpdateInvoiceDeleteItems(c)
    \/ UpdateInvoiceInsertItems(c)
    \/ UpdateInvoiceStatus(c, MaxMoneyCalls)
    \/ DeleteInvoice(c, MaxMoneyCalls)

SpecMoney == InitMoney /\ [][NextMoney]_vars

\* The Create and Edit forms of one user, from typing to persistence.
\* The forms are opened and typed into up to the first call; the calls after it
\* are submissions of a form left open by a failure and status changes.
MaxFormCalls == 1
MaxFormItems == 2
FormClients == {"c1"}

InitForm == InitStored(BasicLists)

NextForm ==
  \E c \in FormClients :
    \/ calls = 0 /\ OpenCreateForm(c)
    \/ calls = 0 /\ OpenEditForm(c)
    \/ calls = 0 /\ SetCustomerName(c)
    \/ calls = 0 /\ SetInvoiceNumber(c)
    \/ calls = 0 /\ SetItem(c)
    \/ calls = 0 /\ AppendItem(c, MaxFormItems)
    \/ calls = 0 /\ RemoveItem(c)
    \/ SubmitCreate(c, MaxFormCalls)
    \/ CreateInvoiceInsert(c)
    \/ CreateInvoiceItems(c)
    \/ SubmitEdit(c, MaxFormCalls)
    \/ UpdateInvoiceDeleteItems(c)
    \/ UpdateInvoiceInsertItems(c)
    \/ OnSubmitSend(c)
    \/ OnSubmitSettled(c)
    \/ form[c].page = "none" /\ UpdateInvoiceStatus(c, MaxFormCalls)

SpecForm == InitForm /\ [][NextForm]_vars

\* Edits and deletions of one stored invoice by two members of its
\* organization (c1, c2) and a user of another organization (c3).
MaxEditCalls == 2
EditClients == {"c1", "c2", "c3"}
EditLists == {<<Item("a", 1, 500000, 0)>>, <<Item("a", 2, 500000, 18)>>}

InitEdit == InitStored(BasicLists)

NextEdit ==
  \E c \in EditClients :
    \/ UpdateInvoiceHeader(c, EditLists, MaxEditCalls)
    \/ UpdateInvoiceDeleteItems(c)
    \/ UpdateInvoiceInsertItems(c)
    \/ DeleteInvoice(c, MaxEditCalls)

SpecEdit == InitEdit /\ [][NextEdit]_vars

\* The Dashboard over every table of up to MaxDashInvoices invoices of
\* organization o1, in any status (headers whose items are left out).
MaxDashInvoices == 3
DashTotals == {2500, 5000, 10000}
DashClients == {"c1", "c3"}

DashRow(i, status, total) ==
  [organization_id |-> "o1",
   invoice_number |-> FormatInvoiceNumber(i),
   status |-> status,
   subtotal |-> total,
   tax_amount |-> 0,
   discount_amount |-> 0,
   total_amount |-> total,
   due_date |-> DueAfter]

InitDash ==
  \E n \in 0..MaxDashInvoices :
    \E status \in [1..n -> Statuses], total \in [1..n -> DashTotals] :
      /\ invoice_counter = [o \in Orgs |-> IF o = "o1" THEN n ELSE 0]
      /\ counter0 = [o \in Orgs |-> 0]
      /\ invoices = [i \in 1..n |-> DashRow(i, status[i], total[i])]
      /\ invoice_items = {}
      /\ next_invoice_id = n + 1
      /\ next_item_id = 1
      /\ pc = [c \in Clients |-> "idle"]
      /\ local = [c \in Clients |-> NoLocal]
      /\ result = [c \in Clients |-> NoResult]
      /\ allocated = [o \in OrgIds |->
                        IF o = "o1" THEN [i \in 1..n |-> FormatInvoiceNumber(i)] ELSE <<>>]
      /\ calls = 0
      /\ form = [c \in Clients |-> NoForm]
      /\ dashboard = [c \in Clients |-> NoDashboard]
      /\ today = 0
      /\ cache = [c \in Clients |-> << >>]

NextDash == \E c \in DashClients : DashboardRender(c)

SpecDash == InitDash /\ [][NextDash]_vars

\* Everything a user of organization o2 (c3) can call while organization o1
\* holds one invoice and none of its members acts.
MaxOutsiderCalls == 2
OutsiderClients == {"c3"}

InitOutsider == InitStored(BasicLists)

NextOutsider ==
  \E c \in OutsiderClients :
    \/ RpcGetNextInvoiceNumber(c, MaxOutsiderCalls)
    \/ CreateInvoiceRpc(c, BasicLists, MaxOutsiderCalls)
    \/ CreateInvoiceInsert(c)
    \/ CreateInvoiceItems(c)
    \/ UpdateInvoiceHeader(c, BasicLists, MaxOutsiderCalls)
    \/ UpdateInvoiceDeleteItems(c)
    \/ UpdateInvoiceInsertItems(c)
    \/ UpdateInvoiceStatus(c, MaxOutsiderCalls)
    \/ DeleteInvoice(c, MaxOutsiderCalls)

SpecOutsider == InitOutsider /\ [][NextOutsider]_vars

\* The life of invoices in the hands of one member while time passes.
MaxStatusCalls == 2
MaxToday == 2
StatusClients == {"c1"}

InitStatus == InitStored(BasicLists)

NextStatus ==
  \/ DayPasses(MaxToday)
  \/ \E c \in StatusClients :
       \/ CreateInvoiceRpc(c, BasicLists, MaxStatusCalls)
       \/ CreateInvoiceInsert(c)
       \/ CreateInvoiceItems(c)
       \/ UpdateInvoiceHeader(c, EditLists, MaxStatusCalls)
       \/ UpdateInvoiceDeleteItems(c)
       \/ UpdateInvoiceInsertItems(c)
       \/ UpdateInvoiceStatus(c, MaxStatusCalls)
       \/ DeleteInvoice(c, MaxStatusCalls)

SpecStatus == InitStatus /\ [][NextStatus]_vars

\* Two members of one organization at the pages that list, show, create and
\* edit its invoices, each looking at its own cached rows.
MaxPageCalls == 2
PageClients == {"c1", "c2"}

InitPages == InitStored(BasicLists)

NextPages ==
  \E c \in PageClients :
    \/ FetchInvoices(c)
    \/ DetailMarkAsSent(c, MaxPageCalls)
    \/ DetailMarkAsPaid(c, MaxPageCalls)
    \/ ListMarkAsPaid(c, MaxPageCalls)
    \/ ListDelete(c, MaxPageCalls)
    \/ ListEdit(c, BasicLists, MaxPageCalls)
    \/ UpdateInvoiceDeleteItems(c)
    \/ UpdateInvoiceInsertItems(c)
    \/ CreateFromForm(c, BasicLists, MaxPageCalls)
    \/ CreateInvoiceInsert(c)
    \/ CreateInvoiceItems(c)
    \/ OnSubmitSend(c)
    \/ OnSubmitSettled(c)

SpecPages == InitPages /\ [][NextPages]_vars

\* =================================================================== claims
INV(suffix) == <<"I", "N", "V", "-">> \o suffix
LastOf(seq) == seq[Len(seq)]
Called(o) == Len(allocated'[o]) = Len(allocated[o]) + 1

\* C1: whatever the interleaving of the clients' calls on one organization,
\* the counter ends at c + K after K calls (none lost, none skipped) and two
\* clients whose creations are in flight for the same organization hold
\* different numbers.
C1_Holding(c) == pc[c] \in {"create_insert", "create_items"}

C1_ConcurrentCallsDistinct ==
  /\ \A o \in Orgs : invoice_counter[o] = counter0[o] + Len(allocated[o])
  /\ \A c, d \in Clients :
       (/\ c # d
        /\ C1_Holding(c)
        /\ C1_Holding(d)
        /\ current_organization_id[c] = current_organization_id[d])
       => local[c].invoiceNumber # local[d].invoiceNumber

\* C2: from invoice_counter = 0 the N-th call for an organization returns
\* INV-000N (N up to 9), the counter equals the number of calls, and every
\* step either leaves a counter alone or, for a call, adds exactly 1 to it.
C2_FirstNumbers ==
  << INV(<<"0", "0", "0", "1">>), INV(<<"0", "0", "0", "2">>), INV(<<"0", "0", "0", "3">>),
     INV(<<"0", "0", "0", "4">>), INV(<<"0", "0", "0", "5">>), INV(<<"0", "0", "0", "6">>),
     INV(<<"0", "0", "0", "7">>), INV(<<"0", "0", "0", "8">>), INV(<<"0", "0", "0", "9">>) >>

C2_SequentialFromZero ==
  /\ [](\A o \in Orgs : counter0[o] = 0 =>
          /\ invoice_counter[o] = Len(allocated[o])
          /\ \A i \in 1..Len(allocated[o]) : i <= 9 => allocated[o][i] = C2_FirstNumbers[i])
  /\ [][\A o \in Orgs :
          invoice_counter'[o] = invoice_counter[o] + (IF Called(o) THEN 1 ELSE 0)]_vars

C2_Witness ==
  \E o \in Orgs : counter0[o] = 0 /\ Len(allocated[o]) >= 3 /\ invoice_counter[o] = 3

\* C3: the value returned for counter value n is 'INV-' followed by all the
\* decimal digits of n, zero-padded on the left to at least 4 characters, so
\* distinct counter values give distinct strings.
C3_FullDigits(n) ==
  LET digits == IntToText(n) IN
  INV(IF Len(digits) >= 4 THEN digits
      ELSE [i \in 1..4 |-> IF i <= 4 - Len(digits) THEN "0" ELSE digits[i - (4 - Len(digits))]])

C3_NoTruncation ==
  \A o \in Orgs : \A i \in 1..Len(allocated[o]) :
    allocated[o][i] = C3_FullDigits(counter0[o] + i)

\* C4: a number the function has returned for an organization is never the
\* value of a later call for that organization.
C4_NeverReturnedAgain ==
  [][\A o \in Orgs : Called(o) =>
       \A i \in 1..Len(allocated[o]) : allocated[o][i] # LastOf(allocated'[o])]_vars

C6_PerOrganizationCounter ==
  /\ [](\A o \in Orgs : (counter0[o] = 0 /\ Len(allocated[o]) >= 1)
          => allocated[o][1] = INV(<<"0", "0", "0", "1">>))
  /\ [][\A o \in OrgIds : Called(o) =>
          \A other \in Orgs \ {o} : invoice_counter'[other] = invoice_counter[other]]_vars

C6_Witness ==
  \A o \in Orgs :
    /\ counter0[o] = 0
    /\ Len(allocated[o]) >= 1
    /\ allocated[o][1] = INV(<<"0", "0", "0", "1">>)

\* C7: a call with an organization id that matches no row does not complete
\* successfully: its caller gets an error, never a value or NULL.
C7_UnknownOrgFails ==
  \A c \in Clients :
    (result[c].op = "rpc" /\ result[c].org \notin Orgs) => ~result[c].ok

\* C8: an invoice whose status is paid or cancelled keeps that status for as
\* long as it is stored.
C8_TerminalStatus ==
  [][\A id \in DOMAIN invoices :
       (invoices[id].status \in {"paid", "cancelled"} /\ id \in DOMAIN invoices')
          => invoices'[id].status = invoices[id].status]_vars

\* C9: every stored invoice has total_amount = subtotal + tax_amount -
\* discount_amount in its persisted values.
C9_TotalIdentity ==
  \A id \in DOMAIN invoices :
    invoices[id].total_amount
      = invoices[id].subtotal + invoices[id].tax_amount - invoices[id].discount_amount

\* C10 as stated: every stored item's amount equals
\* quantity * unit_price * (1 + tax_rate / 100) of the item as submitted.
C10_ExactHundredths(item) == item.quantity * item.unit_price * (PercentBase + item.tax_rate)

RECURSIVE C11_SubtotalUpTo(_, _)
C11_SubtotalUpTo(items, n) ==
  IF n = 0 THEN 0
  ELSE C11_SubtotalUpTo(items, n - 1) + items[n].quantity * items[n].unit_price

RECURSIVE C11_TaxTimesHundredUpTo(_, _)
C11_TaxTimesHundredUpTo(items, n) ==
  IF n = 0 THEN 0
  ELSE C11_TaxTimesHundredUpTo(items, n - 1)
         + items[n].quantity * items[n].unit_price * items[n].tax_rate

C11_Sums(items, subtotal, tax, total) ==
  /\ subtotal = C11_SubtotalUpTo(items, Len(items))
  /\ tax * 100 = C11_TaxTimesHundredUpTo(items, Len(items))
  /\ total = subtotal + tax

C11_Example == <<FormItem("a", 2, 1000000, 18), FormItem("a", 1, 500000, 0)>>
C11_ExampleTotals == [subtotal |-> 2500000, tax |-> 360000, total |-> 2860000]

C11_ComputeInvoiceTotals ==
  \A c \in Clients :
    /\ form[c].page # "none" =>
         /\ C11_Sums(ToHookItems(form[c].items), form[c].totals.subtotal,
                     form[c].totals.tax, form[c].totals.total)
         /\ form[c].items = <<>> => form[c].totals = ZeroTotals
         /\ form[c].items = C11_Example => form[c].totals = C11_ExampleTotals
    /\ pc[c] # "idle" =>
         /\ C11_Sums(local[c].items, subtotalOf(local[c].items),
                     taxAmountOf(local[c].items), totalAmountOf(local[c].items))
         /\ local[c].items = ToHookItems(C11_Example) =>
              /\ subtotalOf(local[c].items) = C11_ExampleTotals.subtotal
              /\ taxAmountOf(local[c].items) = C11_ExampleTotals.tax
              /\ totalAmountOf(local[c].items) = C11_ExampleTotals.total

C11_Witness ==
  /\ form["c1"].items = C11_Example
  /\ form["c1"].totals = C11_ExampleTotals
  /\ pc["c1"] \in {"create_insert", "update_delete"}
  /\ local["c1"].items = ToHookItems(C11_Example)

\* C12 -- When an updateInvoice of a single writer succeeds, the stored items
\* of the invoice are the new list, item by item, every row written by this
\* update and none older. Read literally (stored unit price = given unit
\* price) this is C12_ExactList; what holds is C12_ReplacedRounded, where the
\* stored unit price is the given one rounded to two decimals.
C12_Succeeds(c) ==
  /\ pc[c] = "update_insert"
  /\ pc'[c] = "idle"
  /\ result'[c].ok

C12_RowsAfter(c) == {r \in invoice_items' : r.invoice_id = local[c].id}

C12_Replaced(c) ==
  /\ Cardinality(C12_RowsAfter(c)) = Len(local[c].items)
  /\ \A r \in C12_RowsAfter(c) : r \notin invoice_items /\ r.id >= next_item_id
  /\ \A i \in DOMAIN local[c].items :
       \E r \in C12_RowsAfter(c) :
         /\ r.id = next_item_id + i - 1
         /\ r.description = local[c].items[i].description
         /\ r.quantity = local[c].items[i].quantity
         /\ r.tax_rate = local[c].items[i].tax_rate

C12_UnitPricesExact(c) ==
  \A i \in DOMAIN local[c].items :
    \E r \in C12_RowsAfter(c) :
      /\ r.id = next_item_id + i - 1
      /\ r.unit_price * CentUnits = local[c].items[i].unit_price

C12_UnitPricesRounded(c) ==
  \A i \in DOMAIN local[c].items :
    \E r \in C12_RowsAfter(c) :
      /\ r.id = next_item_id + i - 1
      /\ 2 * (r.unit_price * CentUnits - local[c].items[i].unit_price) <= CentUnits
      /\ 2 * (local[c].items[i].unit_price - r.unit_price * CentUnits) < CentUnits

C13_NoOrphans == \A r \in invoice_items : r.invoice_id \in DOMAIN invoices

C13_DeletedHasNoItems(c) ==
  (result[c].op = "deleteInvoice" /\ result[c].ok) =>
     \A r \in invoice_items : r.invoice_id # result[c].id

C13_DeleteRemovesItems ==
  /\ \A c \in Clients : C13_DeletedHasNoItems(c)
  /\ C13_NoOrphans

C13_MembersOnly ==
  /\ \A c \in {"c1", "c2"} : C13_DeletedHasNoItems(c)
  /\ C13_NoOrphans

\* C14 -- No step of updateInvoice or setInvoiceStatus changes the
\* invoice_number or the organization_id of a stored invoice, whatever the
\* Edit form holds in its invoice-number field.
C14_NumberAndOrgKept ==
  [][\A id \in DOMAIN invoices \cap DOMAIN invoices' :
       /\ invoices'[id].invoice_number = invoices[id].invoice_number
       /\ invoices'[id].organization_id = invoices[id].organization_id]_vars

\* The header of invoice 1 was rewritten by an edit whose form held another
\* invoice number.
C14_Witness ==
  /\ form["c1"].submitting
  /\ form["c1"].id = 1
  /\ form["c1"].invoiceNumber = <<"X">>
  /\ pc["c1"] = "update_delete"
  /\ \A created \in BasicLists :
       invoices[1].total_amount # ToDecimal2(totalAmountOf(created))
  /\ invoices[1].invoice_number = FormatInvoiceNumber(1)
  /\ invoices[1].organization_id = "o1"

\* C15 -- Every invoice row that a step inserts has status draft, whatever
\* the items it was created from.
C15_InsertedAsDraft ==
  [][\A id \in DOMAIN invoices' \ DOMAIN invoices : invoices'[id].status = "draft"]_vars

\* The header of an invoice over a sub-cent price has just been inserted.
C15_Witness ==
  /\ pc["c1"] = "create_items"
  /\ local["c1"].id \in DOMAIN invoices
  /\ local["c1"].items[1].unit_price = 50
  /\ invoices[local["c1"].id].status = "draft"

\* C16 -- A setInvoiceStatus whose id matches no stored invoice ends in an
\* error (no row found, or the transport's own error when the call was lost)
\* and leaves the table invoices as it was.
C16_UnknownIdCall(c) ==
  /\ calls' = calls + 1
  /\ pc'[c] = "idle"
  /\ result'[c].op = "setStatus"
  /\ result'[c].id \notin DOMAIN invoices

C16_UnknownIdFails ==
  [][\A c \in MoneyClients :
       C16_UnknownIdCall(c) =>
         /\ ~result'[c].ok
         /\ result'[c].error \in {"no_rows", "network"}
         /\ invoices' = invoices]_vars

C16_Witness ==
  /\ result["c1"].op = "setStatus"
  /\ result["c1"].id \notin DOMAIN invoices
  /\ result["c1"].error = "no_rows"
  /\ DOMAIN invoices # {}

\* C17 -- The Dashboard's total revenue is the sum of total_amount over the
\* paid invoices of the list and its outstanding amount the sum over the
\* sent, pending and overdue ones; draft and cancelled invoices count in
\* neither; [paid 100, draft 50, paid 25] gives revenue 125.
RECURSIVE C17_SumUpTo(_, _, _)
C17_SumUpTo(list, n, statuses) ==
  IF n = 0 THEN 0
  ELSE C17_SumUpTo(list, n - 1, statuses)
         + (IF list[n].status \in statuses THEN list[n].total_amount ELSE 0)

C17_IsExample(list) ==
  /\ Len(list) = 3
  /\ list[1].status = "paid" /\ list[1].total_amount = 10000
  /\ list[2].status = "draft" /\ list[2].total_amount = 5000
  /\ list[3].status = "paid" /\ list[3].total_amount = 2500

C17_DashboardSums ==
  \A c \in Clients :
    dashboard[c].shown =>
      LET list == useInvoices(c) IN
      /\ dashboard[c].totalRevenue = C17_SumUpTo(list, Len(list), {"paid"})
      /\ dashboard[c].outstanding =
           C17_SumUpTo(list, Len(list), {"sent", "pending", "overdue"})
      /\ C17_IsExample(list) =>
           dashboard[c].totalRevenue = 12500 /\ dashboard[c].outstanding = 0

C17_Witness ==
  /\ dashboard["c1"].shown
  /\ C17_IsExample(useInvoices("c1"))
  /\ dashboard["c1"].totalRevenue = 12500

\* C18 -- While the form on screen has an empty item list, an item with an
\* empty description, a quantity below 1, a negative unit price or a tax rate
\* outside 0..100, or an empty customer name, no step (a submission included)
\* starts a mutation or changes invoice_counter, invoices or invoice_items; a
\* submission ends in a validation error.
C18_InvalidItem(item) ==
  \/ item.description = ""
  \/ item.quantity < 1
  \/ item.unitPrice < 0
  \/ item.taxRate < 0
  \/ item.taxRate > 100

C18_Invalid(f) ==
  \/ f.items = <<>>
  \/ \E i \in DOMAIN f.items : C18_InvalidItem(f.items[i])
  \/ f.customerName = ""

C18_RejectedBeforePersistence ==
  [][\A c \in FormClients :
       (form[c].page # "none" /\ ~form[c].submitting /\ C18_Invalid(form[c])) =>
         /\ invoice_counter' = invoice_counter
         /\ invoices' = invoices
         /\ invoice_items' = invoice_items
         /\ pc'[c] = "idle"
         /\ calls' = calls
         /\ result'[c] # result[c] => result'[c].error = "validation"]_vars

\* A rejected submission of a form with a valid name and one bad line.
C18_Witness ==
  /\ result["c1"].error = "validation"
  /\ form["c1"].page # "none"
  /\ form["c1"].customerName # ""
  /\ Len(form["c1"].items) = 2
  /\ C18_InvalidItem(form["c1"].items[2])
  /\ ~C18_InvalidItem(form["c1"].items[1])

\* C19 -- Once two updateInvoice calls of two users for the same invoice have
\* both succeeded, the stored items of the invoice all come from the item
\* list of one of the calls (last writer wins), none from the other.
C19_BothSucceeded(id) ==
  \A c \in {"c1", "c2"} :
    /\ pc[c] = "idle"
    /\ result[c].op = "updateInvoice"
    /\ result[c].ok
    /\ result[c].id = id

C19_FromOneList(id) ==
  \E items \in EditLists :
    \A r \in invoice_items :
      r.invoice_id = id => \E i \in DOMAIN items : r.given = items[i]

C19_LastWriterWins ==
  \A id \in DOMAIN invoices : C19_BothSucceeded(id) => C19_FromOneList(id)

\* C20 -- createInvoice inserts item rows only for a header that is already
\* stored; when its item insert writes nothing, the header stays stored
\* without items, the counter keeps the allocated number consumed, and the
\* caller gets the error of the item insert.
C20_HeaderFirst ==
  \A r \in invoice_items' \ invoice_items : r.invoice_id \in DOMAIN invoices

C20_ItemInsertFails(c) ==
  /\ pc[c] = "create_items"
  /\ pc'[c] = "idle"
  /\ invoice_items' = invoice_items

C20_HeaderLeftAlone(c) ==
  LET id == local[c].id
      org == current_organization_id[c]
  IN
  /\ ~result'[c].ok
  /\ result'[c].op = "createInvoice"
  /\ result'[c].error \in {"network", "rls_violation"}
  /\ invoices' = invoices
  /\ id \in DOMAIN invoices'
  /\ invoices'[id].invoice_number = local[c].invoiceNumber
  /\ {r \in invoice_items' : r.invoice_id = id} = {}
  /\ invoice_counter' = invoice_counter
  /\ LastOf(allocated'[org]) = local[c].invoiceNumber

C20_PartialFailure ==
  [][/\ C20_HeaderFirst
     /\ \A c \in MoneyClients : C20_ItemInsertFails(c) => C20_HeaderLeftAlone(c)]_vars

C20_Witness ==
  /\ result["c1"].op = "createInvoice"
  /\ ~result["c1"].ok
  /\ result["c1"].id \in DOMAIN invoices
  /\ {r \in invoice_items : r.invoice_id = result["c1"].id} = {}
  /\ invoice_counter["o1"] = 1
  /\ invoices[result["c1"].id].invoice_number = FormatInvoiceNumber(1)

\* C21 -- No step of a user who is not a member of organization o1 changes
\* o1's invoice_counter, its invoices or their items.
C21_InvoicesOf(o) == {id \in DOMAIN invoices : invoices[id].organization_id = o}

C21_StateOf(o) ==
  <<invoice_counter[o],
    [id \in C21_InvoicesOf(o) |-> invoices[id]],
    {r \in invoice_items : r.invoice_id \in C21_InvoicesOf(o)}>>

C21_Isolation == [][C21_StateOf("o1")' = C21_StateOf("o1")]_vars

\* C22 -- The status of a stored invoice changes only in a step that is a
\* setInvoiceStatus call for that invoice: not in a step of updateInvoice,
\* of a creation or deletion, nor when a day passes, whether or not the due
\* date is reached.
C22_SetStatusStep(id) ==
  \E c \in Clients :
    /\ pc[c] = "idle"
    /\ pc'[c] = "idle"
    /\ calls' = calls + 1
    /\ result'[c].op = "setStatus"
    /\ result'[c].id = id

C22_StatusOnlyBySetStatus ==
  [][\A id \in DOMAIN invoices \cap DOMAIN invoices' :
       invoices'[id].status # invoices[id].status => C22_SetStatusStep(id)]_vars

\* Invoice 1 was sent, then edited, and its due date has passed.
C22_Witness ==
  /\ 1 \in DOMAIN invoices
  /\ invoices[1].status = "sent"
  /\ today > invoices[1].due_date
  /\ result["c1"].op = "updateInvoice"
  /\ result["c1"].ok
  /\ result["c1"].id = 1

\* C23 -- A createInvoice whose get_next_invoice_number call returns an error
\* ends at once with that error and writes no header and no item; a
\* createInvoice that goes on to the header insert carries a number the
\* function returned to it.
C23_EndsAtTheRpc(c) ==
  /\ pc[c] = "idle"
  /\ pc'[c] = "idle"
  /\ calls' = calls + 1
  /\ result'[c].op = "createInvoice"

C23_NumberFromFunction(c) ==
  pc'[c] = "create_insert" =>
    \E i \in DOMAIN allocated'[current_organization_id[c]] :
      allocated'[current_organization_id[c]][i] = local'[c].invoiceNumber

C23_RpcErrorPropagates ==
  [][\A c \in MoneyClients :
       /\ C23_EndsAtTheRpc(c) =>
            /\ ~result'[c].ok
            /\ result'[c].error = "network"
            /\ invoices' = invoices
            /\ invoice_items' = invoice_items
       /\ C23_NumberFromFunction(c)]_vars

\* The rpc of the first createInvoice was lost on its way to the database.
C23_Witness ==
  /\ calls = 1
  /\ result["c1"].op = "createInvoice"
  /\ result["c1"].error = "network"
  /\ invoice_counter["o1"] = 0
  /\ DOMAIN invoices = {}
  /\ invoice_items = {}

\* C24: at every reachable state each stored invoice carries a number whose
\* numeric suffix lies between 1 and its organization's invoice_counter, and
\* the number of invoices ever inserted for an organization never exceeds
\* its invoice_counter.
C24_Digit(ch) == CHOOSE d \in 0..9 : DigitChars[d + 1] = ch

RECURSIVE C24_TextToInt(_)
C24_TextToInt(s) ==
  IF s = <<>> THEN 0
  ELSE 10 * C24_TextToInt(SubSeq(s, 1, Len(s) - 1)) + C24_Digit(s[Len(s)])

C24_Suffix(number) == C24_TextToInt(SubSeq(number, 5, Len(number)))

\* Every client of Spec belongs to o1 and ids are handed out one per stored
\* header, so the ids handed out count the invoices ever inserted for o1.
C24_EverInserted(o) ==
  IF \A c \in AllocClients : current_organization_id[c] = o
  THEN next_invoice_id - 1
  ELSE Cardinality({id \in DOMAIN invoices : invoices[id].organization_id = o})

C24_NumbersWithinCounter ==
  /\ \A id \in DOMAIN invoices :
       /\ invoices[id].invoice_number # NULL
       /\ SubSeq(invoices[id].invoice_number, 1, 4) = INV(<<>>)
       /\ C24_Suffix(invoices[id].invoice_number) >= 1
       /\ C24_Suffix(invoices[id].invoice_number)
            <= invoice_counter[invoices[id].organization_id]
  /\ \A o \in Orgs : C24_EverInserted(o) <= invoice_counter[o]

\* Two invoices stored from counter 9998, the second under the number cut to
\* INV-1000, and a third allocation that stored nothing.
C24_Witness ==
  /\ invoice_counter["o1"] = 10001
  /\ next_invoice_id = 3
  /\ \E id \in DOMAIN invoices :
       invoices[id].invoice_number = INV(<<"1", "0", "0", "0">>)

\* C25: after createInvoice, updateInvoice, setInvoiceStatus and deleteInvoice
\* calls that run one at a time and each complete successfully, every stored
\* invoice's subtotal + tax_amount equals the sum of amount over its stored
\* invoice_items.
RECURSIVE C25_SumAmounts(_)
C25_SumAmounts(rows) ==
  IF rows = {} THEN 0
  ELSE LET r == CHOOSE q \in rows : TRUE
       IN r.amount + C25_SumAmounts(rows \ {r})

C25_ItemsSumTo(id) ==
  invoices[id].subtotal + invoices[id].tax_amount
    = C25_SumAmounts({r \in invoice_items : r.invoice_id = id})

\* One client, so the calls run one at a time; the only call so far was a
\* createInvoice and it reported success.
C25_AllSucceeded(c) ==
  /\ pc[c] = "idle"
  /\ calls = 1
  /\ result[c].op = "createInvoice"
  /\ result[c].ok

C25_SubtotalPlusTaxIsItemSum ==
  \A c \in MoneyClients :
    C25_AllSucceeded(c) => \A id \in DOMAIN invoices : C25_ItemsSumTo(id)

\* C27: in the Create & Send flow the status update to sent is issued only
\* after createInvoice has resolved, with the header and all the items
\* stored; after a createInvoice that failed at any step no status update is
\* issued and no invoice becomes sent; a status update that writes nothing is
\* reported as an error and leaves the invoice stored as draft with its items.
C27_StatusUpdateIssued(c) ==
  /\ form[c].page = "create"
  /\ result'[c] # result[c]
  /\ result'[c].op = "setStatus"

C27_BecomesSent(id) ==
  /\ id \in DOMAIN invoices'
  /\ invoices'[id].status = "sent"
  /\ id \in DOMAIN invoices => invoices[id].status # "sent"

C27_AfterCreateSucceeded(c) ==
  LET id == result[c].id IN
  /\ form[c].action = "send"
  /\ form[c].submitting
  /\ result[c].op = "createInvoice"
  /\ result[c].ok
  /\ result'[c].id = id
  /\ id \in DOMAIN invoices
  /\ invoices[id].status = "draft"
  /\ Cardinality({r \in invoice_items : r.invoice_id = id}) = Len(form[c].items)
  /\ \A other \in DOMAIN invoices \ {id} : invoices'[other] = invoices[other]

C27_FailedUpdateLeavesDraft(c) ==
  LET id == result[c].id IN
  /\ invoices'[id].status # "sent" => ~result'[c].ok /\ invoices' = invoices
  /\ ~result'[c].ok =>
       \/ invoices'[id].status = "draft"
       \/ result'[c].error = "network" /\ invoices'[id].status = "sent"
  /\ invoice_items' = invoice_items

C27_SentOnlyAfterCreate ==
  [][\A c \in FormClients :
       /\ C27_StatusUpdateIssued(c) =>
            C27_AfterCreateSucceeded(c) /\ C27_FailedUpdateLeavesDraft(c)
       /\ form[c].page = "create" =>
            \A id \in DOMAIN invoices' :
              C27_BecomesSent(id) => C27_StatusUpdateIssued(c) /\ id = result[c].id
       /\ (form[c].submitting /\ form[c].page = "create" /\ pc[c] = "idle" /\ ~result[c].ok) =>
            /\ invoices' = invoices
            /\ ~C27_StatusUpdateIssued(c)]_vars

\* Create & Send whose status update never reached the database: the new
\* invoice is stored as draft with its item, the form is still open.
C27_Witness ==
  /\ form["c1"].page = "create"
  /\ form["c1"].action = "send"
  /\ result["c1"].op = "setStatus"
  /\ ~result["c1"].ok
  /\ result["c1"].id \in DOMAIN invoices
  /\ result["c1"].id # 1
  /\ invoices[result["c1"].id].status = "draft"
  /\ \E r \in invoice_items : r.invoice_id = result["c1"].id

\* C26: with only the actions the pages offer, each client choosing among
\* the buttons its own cached copy of the invoice shows, an invoice whose
\* stored status is paid never later has a different stored status.
C26_PaidStaysPaid ==
  [][\A id \in DOMAIN invoices :
       (invoices[id].status = "paid" /\ id \in DOMAIN invoices')
          => invoices'[id].status = "paid"]_vars

\* C28: updateInvoice called with an id that matches no stored invoice ends
\* at the header update with an error and goes on to neither the delete nor
\* the insert of invoice_items: all stored invoices and items are unchanged.
C28_Starts(c) ==
  /\ pc[c] = "idle"
  /\ calls' = calls + 1
  /\ \/ pc'[c] = "update_delete"
     \/ pc'[c] = "idle" /\ result'[c].op = "updateInvoice"

C28_Id(c) == IF pc'[c] = "update_delete" THEN local'[c].id ELSE result'[c].id

C28_UnknownIdEndsAtHeader ==
  [][\A c \in MoneyClients :
       (C28_Starts(c) /\ C28_Id(c) \notin DOMAIN invoices) =>
          /\ pc'[c] = "idle"
          /\ ~result'[c].ok
          /\ result'[c].error \in {"no_rows", "network"}
          /\ invoices' = invoices
          /\ invoice_items' = invoice_items]_vars

\* An update of an id that was never handed out, beside a stored invoice
\* with its items.
C28_Witness ==
  /\ result["c1"].op = "updateInvoice"
  /\ result["c1"].error = "no_rows"
  /\ result["c1"].id \notin DOMAIN invoices
  /\ DOMAIN invoices # {}
  /\ invoice_items # {}

\* C29 as stated: for every item list the form schema accepts, the subtotal,
\* tax and total of the form preview (calculateTotals) equal the subtotal,
\* tax_amount and total_amount createInvoice / updateInvoice compute for the
\* same items, and each line's previewed amount (calculateItemAmount) equals
\* the amount stored for that item.
C29_InMutation(c) ==
  /\ form[c].submitting
  /\ pc[c] \in {"create_insert", "create_items", "update_delete", "update_insert"}

C29_PreviewTotalsAreHookTotals(c) ==
  C29_InMutation(c) =>
    /\ local[c].items = ToHookItems(form[c].items)
    /\ form[c].totals.subtotal = subtotalOf(local[c].items)
    /\ form[c].totals.tax = taxAmountOf(local[c].items)
    /\ form[c].totals.total = totalAmountOf(local[c].items)

C29_ItemsStored(c) ==
  /\ form[c].submitting
  /\ pc[c] \in {"create_items", "update_insert"}
  /\ pc'[c] = "idle"
  /\ result'[c].ok

C29_StoredFor(c, i) ==
  CHOOSE r \in invoice_items' : r.invoice_id = local[c].id /\ r.id = next_item_id + i - 1

C29_LinesStored(c) ==
  \A i \in DOMAIN form[c].items :
    \E r \in invoice_items' : r.invoice_id = local[c].id /\ r.id = next_item_id + i - 1

C29_AmountsExact(c) ==
  \A i \in DOMAIN form[c].items :
    C29_StoredFor(c, i).amount * CentUnits = form[c].amounts[i]

C29_AmountsRounded(c) ==
  \A i \in DOMAIN form[c].items :
    LET stored == C29_StoredFor(c, i).amount * CentUnits
        preview == form[c].amounts[i]
    IN /\ 2 * (stored - preview) <= CentUnits
       /\ 2 * (preview - stored) <= CentUnits
       /\ (preview % CentUnits = 0 => stored = preview)

C30_DeleteCall(c) ==
  /\ pc[c] = "idle"
  /\ calls' = calls + 1
  /\ pc'[c] = "idle"
  /\ result'[c].op = "deleteInvoice"

C30_Again(c) ==
  /\ result[c].op = "deleteInvoice"
  /\ result[c].ok
  /\ result'[c].id = result[c].id

C30_NothingChanges ==
  /\ invoices' = invoices
  /\ invoice_items' = invoice_items
  /\ next_invoice_id' = next_invoice_id
  /\ next_item_id' = next_item_id

C30_DeleteIdempotent ==
  [][\A c \in StatusClients :
       C30_DeleteCall(c) =>
         /\ invoice_counter' = invoice_counter
         /\ result'[c].ok \/ result'[c].error = "network"
         /\ result'[c].id \notin DOMAIN invoices => C30_NothingChanges
         /\ result'[c].ok =>
              /\ result'[c].id \notin DOMAIN invoices'
              /\ \A r \in invoice_items' : r.invoice_id # result'[c].id
         /\ C30_Again(c) => C30_NothingChanges]_vars

\* The stored invoice deleted by the first call, the second call on the same
\* id answered with success.
C30_Witness ==
  /\ calls = 2
  /\ result["c1"].op = "deleteInvoice"
  /\ result["c1"].ok
  /\ result["c1"].id = 1
  /\ DOMAIN invoices = {}
  /\ invoice_items = {}
  /\ next_invoice_id = 2
  /\ invoice_counter["o1"] = 1

=============================================================================
